---- MODULE Spec2Model ----
(***************************************************************************)
(* State-machine model of the vox-navigator TTS server core:               *)
(*   core/engine_manager.py  EngineManager (lazy engine, device fallback)  *)
(*   core/device.py          detect_device                                 *)
(*   engines/xtts_engine.py  XTTSEngine (load_model, synthesize)           *)
(*   engines/base.py         BaseTTSEngine (capability interface)          *)
(*                                                                         *)
(* Request-handling tasks call the public operations of the one shared     *)
(* EngineManager.  Every action is one step of one task between two        *)
(* accesses to shared state (the manager's attributes, the engine's        *)
(* attributes, the filesystem, the clock); statements that touch only      *)
(* locals are folded into the step that precedes them.                     *)
(***************************************************************************)
EXTENDS Integers, Sequences, FiniteSets, TLC

\* ---------------------------------------------------------------- bounds
NumTasks == 2      \* request-handling tasks
MaxCalls == 3      \* public calls in one behaviour, one request at a time
MaxRaceCalls == 2  \* the same, while requests overlap
MaxTime == 1       \* the clock runs over 0..MaxTime seconds
MaxTextLen == 1    \* longest input text, in characters
HashSpace == 65536 \* number of distinct text digests
MaxFaults == 3     \* failures of the host or of a library, one request at a time
MaxRaceFaults == 1 \* the same, while requests overlap
MaxSamples == 2    \* longest sample sequence given to write_wav
FloatDen == 2      \* float samples are the multiples of 1/FloatDen in [-2.0, 2.0]

\* ------------------------------------------------------ program constants
max_length == 10000

Tasks == 1..NumTasks

VARIABLES
    env,          \* what the host offers: torch installed, accelerator, HIP metadata
    device_info,  \* EngineManager._device_info
    engine,       \* EngineManager._engine: 0 is None, else a handle into engines
    engines,      \* every XTTSEngine object constructed so far, by handle
    fs,           \* output files: path -> "absent", "empty", "partial" or "full"
    clock,        \* the latest reading of int(time.time())
    calls,        \* public calls that may still be started
    faults,       \* failures the host and the libraries may still produce
    returned,     \* handles that get_engine() has returned to some caller
    th,           \* per task: position, arguments, locals, last result
    cls,          \* EngineManager._instance and the instance's _initialized
    wav           \* the write_wav call: position, arguments, locals, disk, result

vars == <<env, device_info, engine, engines, fs, clock, calls, faults, returned, th, cls, wav>>

\* ------------------------------------------------------------ core/device.py
NoDevice == [type |-> "None", name |-> "None", torch_device |-> "None", details |-> "None"]

DeviceInfo(type, name, torch_device, details) ==
    [type |-> type, name |-> name, torch_device |-> torch_device, details |-> details]

\* Hosts: torch missing; torch without accelerator, and the reference-voice
\* asset (assets/speakers/default_pt.wav) missing; CUDA; ROCm (HIP metadata
\* set) whose device name cannot be read.
Host(torch, cuda_available, hip, gpu_name, speaker) ==
    [torch |-> torch, cuda_available |-> cuda_available, hip |-> hip,
     gpu_name |-> gpu_name, speaker |-> speaker]

Envs ==
    { Host(FALSE, FALSE, FALSE, TRUE, TRUE),
      Host(TRUE, FALSE, FALSE, TRUE, FALSE),
      Host(TRUE, TRUE, FALSE, TRUE, TRUE),
      Host(TRUE, TRUE, TRUE, FALSE, TRUE) }

get_gpu_name(e) == IF e.gpu_name THEN "GPU0" ELSE "Unknown GPU"

detect_device_ignores_hip(e) ==
    IF ~e.torch
    THEN DeviceInfo("cpu", "CPU", "cpu", "PyTorch not installed")
    ELSE IF e.cuda_available
         THEN DeviceInfo("cuda", get_gpu_name(e), "cuda", "CUDA")
         ELSE DeviceInfo("cpu", "CPU", "cpu", "None")

detect_device(e) ==
    IF ~e.torch
    THEN DeviceInfo("cpu", "CPU", "cpu", "PyTorch not installed")
    ELSE IF e.cuda_available
         THEN IF e.hip
              THEN DeviceInfo("rocm", get_gpu_name(e), "cuda", "ROCm")
              ELSE DeviceInfo("cuda", get_gpu_name(e), "cuda", "CUDA")
         ELSE DeviceInfo("cpu", "CPU", "cpu", "None")

\* ------------------------------------------------------------ core/errors.py
\* An exception in flight: its Python class, the text fragments its message
\* contains (an f-string that interpolates {e} contains all of e's fragments),
\* and, for ImportError, the module name it carries.
NoExc == [type |-> "none", msg |-> {}, name |-> << >>]

Exc(type, msg) == [type |-> type, msg |-> msg, name |-> << >>]

\* ImportError(msg, name=...): name is the dotted module path, << >> when unset
ImportError(msg, name) == [type |-> "ImportError", msg |-> msg, name |-> name]

\* The error kind a caller sees, by exception class.
Kind(x) ==
    CASE x.type = "SynthesisError"  -> "Synthesis"
      [] x.type = "EngineLoadError" -> "EngineLoad"
      [] x.type = "DeviceError"     -> "Device"
      [] x.type = "AudioWriteError" -> "AudioWrite"
      [] x.type = "none"            -> "none"
      [] OTHER                      -> "unclassified"

\* ------------------------------------------------------ texts and paths
Chars == {" ", "a"}
Whitespace == {" "}

Texts == UNION { [1..n -> Chars] : n \in 0..MaxTextLen }

\* str.strip(): drop leading and trailing whitespace
RECURSIVE lstrip(_)
lstrip(s) == IF s # << >> /\ Head(s) \in Whitespace THEN lstrip(Tail(s)) ELSE s

RECURSIVE rstrip(_)
rstrip(s) ==
    IF s # << >> /\ s[Len(s)] \in Whitespace THEN rstrip(SubSeq(s, 1, Len(s) - 1)) ELSE s

strip(s) == rstrip(lstrip(s))

\* hashlib.md5(text.encode()).hexdigest()[:8]: a fixed-width digest of the raw
\* text (untrimmed), here a polynomial digest over HashSpace values

CharCode(c) == IF c = " " THEN 32 ELSE 97

RECURSIVE md5_8(_)
md5_8(s) ==
    IF s = << >> THEN 5381 % HashSpace
    ELSE (md5_8(SubSeq(s, 1, Len(s) - 1)) * 31 + CharCode(s[Len(s)])) % HashSpace

\* tempfile.gettempdir() and the one directory callers pass as output_dir
Dirs == {"tmp", "out"}

NoPath == [dir |-> "None", timestamp |-> 0 - 1, hash |-> 0 - 1]

\* os.path.join(output_dir, f"tts_{timestamp}_{text_hash}.wav")
OutputPath(dir, timestamp, text) ==
    [dir |-> dir, timestamp |-> timestamp, hash |-> md5_8(text)]

Paths == { OutputPath(d, ts, x) : d \in Dirs, ts \in 0..MaxTime, x \in Texts }

\* ------------------------------------------------------- audio/writer.py
DEFAULT_SAMPLE_RATE == 22050
DEFAULT_SAMPLE_WIDTH == 2

\* A float sample is the fraction v / FloatDen; the fractions used are exact
\* in binary floating point, and so are their products with 32767.
FloatSample(v) == [kind |-> "float", v |-> v]
IntSample(v) == [kind |-> "int", v |-> v]
NotANumber == [kind |-> "str", v |-> 0]

FloatSamples == { FloatSample(v) : v \in {0 - 2 * FloatDen, 0 - FloatDen, 0 - 1, 0, 1, FloatDen, 2 * FloatDen} }
IntSamples == { IntSample(v) : v \in {0 - 40000, 0 - 32769, 0 - 32768, 0 - 1, 0, 32767, 32768, 40000} }
Samples == FloatSamples \cup IntSamples \cup {NotANumber}

AudioData == UNION { [1..n -> Samples] : n \in 0..MaxSamples }
SampleRates == {0 - 1, 0, 8000, DEFAULT_SAMPLE_RATE}
ChannelCounts == 0..3

Max(a, b) == IF a >= b THEN a ELSE b
Min(a, b) == IF a <= b THEN a ELSE b

\* int(x): truncation toward zero of the fraction n / d, d > 0
IntTrunc(n, d) == IF n >= 0 THEN n \div d ELSE 0 - ((0 - n) \div d)

\* lines 177-185: one sample to its 16-bit value
pcm_sample_upper_only(s) ==
    IF s.kind = "float"
    THEN IntTrunc(Min(FloatDen, s.v) * 32767, FloatDen)
    ELSE Min(32767, s.v)

pcm_sample(s) ==
    IF s.kind = "float"
    THEN IntTrunc(Max(0 - FloatDen, Min(FloatDen, s.v)) * 32767, FloatDen)
    ELSE Max(0 - 32768, Min(32767, s.v))

\* int.to_bytes(2, byteorder='little', signed=True); << >> is OverflowError
to_bytes_big_endian(v) ==
    IF v < 0 - 32768 \/ v > 32767 THEN << >>
    ELSE LET u == (v + 65536) % 65536 IN << u \div 256, u % 256 >>

to_bytes(v) ==
    IF v < 0 - 32768 \/ v > 32767 THEN << >>
    ELSE LET u == (v + 65536) % 65536 IN << u % 256, u \div 256 >>

RECURSIVE join(_)
join(chunks) == IF chunks = << >> THEN << >> ELSE Head(chunks) \o join(Tail(chunks))

\* _audio_to_pcm_bytes: the samples as 16-bit values and their bytes, or the
\* exception the conversion raises
audio_to_pcm_bytes(audio_data) ==
    IF \E i \in 1..Len(audio_data) : audio_data[i].kind \notin {"float", "int"}
    THEN [exc |-> Exc("AudioWriteError", {"Invalid sample type"}),
          pcm_samples |-> << >>, pcm_bytes |-> << >>]
    ELSE LET pcm_samples == [i \in 1..Len(audio_data) |-> pcm_sample(audio_data[i])] IN
         IF \E i \in 1..Len(pcm_samples) : to_bytes(pcm_samples[i]) = << >>
         THEN [exc |-> Exc("OverflowError", {"int too big to convert"}),
               pcm_samples |-> << >>, pcm_bytes |-> << >>]
         ELSE [exc |-> NoExc, pcm_samples |-> pcm_samples,
               pcm_bytes |-> join([i \in 1..Len(pcm_samples) |-> to_bytes(pcm_samples[i])])]

\* Paths: absolute or relative, as the sequence of their components.
WavPath(abs, parts) == [abs |-> abs, parts |-> parts]
NoWavPath == WavPath(FALSE, << >>)
RelativeTarget == WavPath(FALSE, <<"out", "speech.wav">>)
AbsoluteTarget == WavPath(TRUE, <<"data", "speech.wav">>)
TempTarget == WavPath(TRUE, <<"tmp", "tts_0.wav">>)

\* os.path.abspath against the working directory
abspath(p) == IF p.abs THEN p ELSE WavPath(TRUE, <<"cwd">> \o p.parts)

\* os.path.dirname
dirname(p) == WavPath(p.abs, SubSeq(p.parts, 1, Len(p.parts) - 1))

OutputPathArgs == {NoWavPath, RelativeTarget, AbsoluteTarget}
WavFiles == {abspath(RelativeTarget), AbsoluteTarget, TempTarget}

\* A file: absent, or its WAV header (<<channels, sample width, frame rate>>,
\* << >> while none is written) and the payload bytes after it.
NoFile == [exists |-> FALSE, header |-> << >>, data |-> << >>]
EmptyFile == [exists |-> TRUE, header |-> << >>, data |-> << >>]
WavFile(channels, sampwidth, framerate, data) ==
    [exists |-> TRUE, header |-> <<channels, sampwidth, framerate>>, data |-> data]
OldFile == WavFile(2, DEFAULT_SAMPLE_WIDTH, 8000, <<1, 0, 1, 0>>)

\* os.path.getsize: 44 header bytes, then the payload
getsize(f) == (IF f.header = << >> THEN 0 ELSE 44) + Len(f.data)

\* The disk as write_wav sees it: the files, and the directories that exist.
Disk(files, dirs) == [files |-> files, dirs |-> dirs]
Disks ==
    { Disk([p \in WavFiles |-> NoFile], {<<"cwd">>, <<"tmp">>}),
      Disk([p \in WavFiles |-> NoFile], {<<"cwd">>, <<"tmp">>, <<"data">>}),
      Disk([p \in WavFiles |-> IF p = AbsoluteTarget THEN OldFile ELSE NoFile],
           {<<"cwd">>, <<"tmp">>, <<"data">>}) }

\* write_wav's frame: position, arguments, locals, what it gave the caller,
\* the disk when it was called and the number of its filesystem operations.
WavIdle ==
    [pc |-> "idle", audio_data |-> << >>, sample_rate |-> 0, channels |-> 0,
     output_path |-> NoWavPath, path |-> NoWavPath,
     pcm_samples |-> << >>, pcm_bytes |-> << >>, e |-> NoExc,
     disk |-> Disk([p \in WavFiles |-> NoFile], {<<"cwd">>, <<"tmp">>}),
     before |-> Disk([p \in WavFiles |-> NoFile], {<<"cwd">>, <<"tmp">>}),
     io |-> 0, disturbed |-> FALSE,
     result |-> [kind |-> "none", path |-> NoWavPath, exc |-> NoExc]]

\* ---------------------------------------------------- per-task bookkeeping
NoResult ==
    [kind |-> "none", engine |-> 0, device |-> NoDevice, path |-> NoPath, exc |-> NoExc,
     flag |-> FALSE, instance |-> 0]

Idle ==
    [pc |-> "idle", op |-> "none",
     dinfo |-> NoDevice,        \* get_engine: local device_info
     e |-> NoExc,               \* get_engine: the first construction failure
     text |-> << >>,            \* synthesize: argument
     output_dir |-> "None",     \* synthesize: argument
     eng |-> 0,                 \* synthesize: local engine
     output_path |-> NoPath,    \* synthesize: local output_path
     exc |-> NoExc,             \* synthesize: the failure engine.synthesize raised
     tts_calls |-> 0,           \* tts_to_file invocations by the current/last call
     before |-> {},             \* the handles get_engine() had returned when the call began
     prev |-> "none",           \* how the task's previous call ended: its error kind
     result |-> NoResult,       \* how the last call ended
     detects |-> 0,             \* detect_device() invocations by the current/last call
     ctors |-> << >>]           \* construction attempts by the current/last call

\* The class before and after the first EngineManager(): _instance (0 is None,
\* 1 the one object) and the _initialized flag that __init__ sets.
NotConstructed == [instance |-> 0, initialized |-> FALSE]

Constructed == [instance |-> 1, initialized |-> TRUE]

\* A failure of the host or of a library is drawn only while the budget lasts.
Fails(failed) ==
    /\ failed => faults > 0
    /\ faults' = IF failed THEN faults - 1 ELSE faults

Start ==
    /\ env \in Envs
    /\ device_info = NoDevice
    /\ engine = 0
    /\ engines = << >>
    /\ fs = [p \in Paths |-> "absent"]
    /\ clock = 0
    /\ returned = {}
    /\ th = [t \in Tasks |-> Idle]
    /\ cls = Constructed
    /\ wav = WavIdle

Init == Start /\ faults = MaxRaceFaults /\ calls = MaxRaceCalls

SeqInit == Start /\ faults = MaxFaults /\ calls = MaxCalls

\* ------------------------------------------------- ending a public call
\* The locals of the finished frames are gone; what the caller got, the
\* arguments and the call's counters stay until the task's next call.
Ended(r, result) ==
    [r EXCEPT !.pc = "idle", !.result = result,
              !.dinfo = NoDevice, !.e = NoExc, !.eng = 0]

Returns(t, r) ==
    th' = [th EXCEPT ![t] = Ended(th[t], r)]

Raises(t, x) ==
    th' = [th EXCEPT ![t] = Ended(th[t], [NoResult EXCEPT !.kind = "raise", !.exc = x])]

\* A fresh frame for the task's next call.
Frame(t, op, pc) ==
    [Idle EXCEPT !.pc = pc, !.op = op, !.before = returned,
                 !.prev = Kind(th[t].result.exc)]

Begin(t, op, pc) ==
    /\ th[t].pc = "idle"
    /\ calls > 0
    /\ calls' = calls - 1
    /\ th' = [th EXCEPT ![t] = Frame(t, op, pc)]

\* ------------------------------------------- EngineManager.get_device_info
CallGetDeviceInfo(t) ==
    /\ Begin(t, "get_device_info", "gdi_check")
    /\ UNCHANGED <<wav, cls, env, device_info, engine, engines, fs, clock, faults, returned>>

GdiCheck_always_detects(t) ==
    /\ th[t].pc = "gdi_check"
    /\ th' = [th EXCEPT ![t].pc = "gdi_detect"]
    /\ UNCHANGED <<wav, cls, env, device_info, engine, engines, fs, clock, calls, faults, returned>>

\* line 78: if self._device_info is None
GdiCheck(t) ==
    /\ th[t].pc = "gdi_check"
    /\ th' = [th EXCEPT ![t].pc = IF device_info = NoDevice THEN "gdi_detect" ELSE "gdi_return"]
    /\ UNCHANGED <<wav, cls, env, device_info, engine, engines, fs, clock, calls, faults, returned>>

GdiDetect_caches_failure(t) ==
    /\ th[t].pc = "gdi_detect"
    /\ \E ok \in BOOLEAN :
         /\ Fails(~ok)
         /\ device_info' = IF ok THEN detect_device(env)
                                 ELSE DeviceInfo("cpu", "CPU", "cpu", "None")
         /\ IF ok
            THEN th' = [th EXCEPT ![t].pc = "gdi_return", ![t].detects = @ + 1]
            ELSE th' = [th EXCEPT ![t] = Ended([th[t] EXCEPT !.detects = @ + 1],
                           [NoResult EXCEPT !.kind = "raise",
                               !.exc = Exc("DeviceError",
                                           {"Failed to detect compute device", "probe failed"})])]
    /\ UNCHANGED <<wav, cls, env, engine, engines, fs, clock, calls, returned>>

\* lines 79-89: self._device_info = detect_device(); a failing probe becomes DeviceError
GdiDetect(t) ==
    /\ th[t].pc = "gdi_detect"
    /\ \E ok \in BOOLEAN :
         /\ Fails(~ok)
         /\ IF ok
            THEN /\ device_info' = detect_device(env)
                 /\ th' = [th EXCEPT ![t].pc = "gdi_return", ![t].detects = @ + 1]
            ELSE /\ device_info' = device_info
                 /\ th' = [th EXCEPT ![t] = Ended([th[t] EXCEPT !.detects = @ + 1],
                              [NoResult EXCEPT !.kind = "raise",
                                  !.exc = Exc("DeviceError",
                                              {"Failed to detect compute device", "probe failed"})])]
    /\ UNCHANGED <<wav, cls, env, engine, engines, fs, clock, calls, returned>>

\* line 91: return self._device_info
GdiReturn(t) ==
    /\ th[t].pc = "gdi_return"
    /\ IF th[t].op = "get_device_info"
       THEN Returns(t, [NoResult EXCEPT !.kind = "return", !.device = device_info])
       ELSE th' = [th EXCEPT ![t].pc = "ge_init", ![t].dinfo = device_info]
    /\ UNCHANGED <<wav, cls, env, device_info, engine, engines, fs, clock, calls, faults, returned>>

\* -------------------------------------------- engines/xtts_engine.py __init__
\* XTTSEngine._map_device
map_device(e, device) ==
    IF device \in {"cuda", "rocm"}
    THEN IF e.cuda_available THEN "cuda" ELSE "cpu"
    ELSE "cpu"

\* XTTSEngine.__init__ (with BaseTTSEngine.__init__): nothing is loaded yet
XTTSEngine(e, device) ==
    [device |-> device, torch_device |-> map_device(e, device),
     model_loaded |-> FALSE, tts_model |-> 0]

\* The failure an XTTSEngine constructor raises on a device type.
CtorFailure(device) ==
    Exc("RuntimeError",
        {CASE device = "cuda" -> "cuda construction failed"
           [] device = "rocm" -> "rocm construction failed"
           [] OTHER           -> "cpu construction failed"})

\* EngineManager._initialize_engine, failure branch (lines 168-171)
initialize_engine_error(device, x) ==
    Exc("EngineLoadError", {"Failed to create engine for device"} \cup x.msg)

\* The cpu descriptor get_engine builds for the fallback (lines 125-130)
cpu_device == DeviceInfo("cpu", "CPU", "cpu", "CPU fallback after GPU failure")

both_failed_error_cpu_only(e, cpu_error) ==
    Exc("EngineLoadError", {"Engine initialization failed on both"} \cup cpu_error.msg)

\* lines 137-140: the EngineLoadError raised once the cpu retry has failed too
both_failed_error(e, cpu_error) ==
    Exc("EngineLoadError",
        {"Engine initialization failed on both"} \cup e.msg \cup cpu_error.msg)

\* ------------------------------------------------ EngineManager.get_engine
CallGetEngine(t) ==
    /\ Begin(t, "get_engine", "ge_check")
    /\ UNCHANGED <<wav, cls, env, device_info, engine, engines, fs, clock, faults, returned>>

GeCheck_no_cache(t) ==
    /\ th[t].pc = "ge_check"
    /\ th' = [th EXCEPT ![t].pc = "gdi_check"]
    /\ UNCHANGED <<wav, cls, env, device_info, engine, engines, fs, clock, calls, faults, returned>>

\* line 106: if self._engine is not None
GeCheck(t) ==
    /\ th[t].pc = "ge_check"
    /\ th' = [th EXCEPT ![t].pc = IF engine # 0 THEN "ge_return" ELSE "gdi_check"]
    /\ UNCHANGED <<wav, cls, env, device_info, engine, engines, fs, clock, calls, faults, returned>>

\* lines 107, 115, 134: return self._engine
GeReturn(t) ==
    /\ th[t].pc = "ge_return"
    /\ returned' = returned \cup {engine}
    /\ IF th[t].op = "get_engine"
       THEN Returns(t, [NoResult EXCEPT !.kind = "return", !.engine = engine])
       ELSE th' = [th EXCEPT ![t].pc = "syn_outdir", ![t].eng = engine]
    /\ UNCHANGED <<wav, cls, env, device_info, engine, engines, fs, clock, calls, faults>>

GeInit_always_retries(t) ==
    /\ th[t].pc = "ge_init"
    /\ LET d == th[t].dinfo IN
       \E ok \in BOOLEAN :
         /\ Fails(~ok)
         /\ IF ok
            THEN /\ engines' = Append(engines, XTTSEngine(env, d.type))
                 /\ engine' = Len(engines) + 1
                 /\ th' = [th EXCEPT ![t].pc = "ge_return",
                                     ![t].ctors = Append(@, [device |-> d.type, ok |-> TRUE])]
            ELSE LET x == initialize_engine_error(d.type, CtorFailure(d.type)) IN
                 /\ UNCHANGED <<engine, engines>>
                 /\ IF TRUE
                    THEN th' = [th EXCEPT ![t].pc = "ge_fallback", ![t].e = x,
                                     ![t].ctors = Append(@, [device |-> d.type, ok |-> FALSE])]
                    ELSE th' = [th EXCEPT ![t] = Ended(
                                     [th[t] EXCEPT !.ctors = Append(@, [device |-> d.type, ok |-> FALSE])],
                                     [NoResult EXCEPT !.kind = "raise",
                                         !.exc = Exc("EngineLoadError",
                                             {"Engine initialization failed on CPU"} \cup x.msg)])]
    /\ UNCHANGED <<wav, cls, env, device_info, fs, clock, calls, returned>>

\* lines 112-122 and 141-145: the attempt on the detected device
GeInit(t) ==
    /\ th[t].pc = "ge_init"
    /\ LET d == th[t].dinfo IN
       \E ok \in BOOLEAN :
         /\ Fails(~ok)
         /\ IF ok
            THEN /\ engines' = Append(engines, XTTSEngine(env, d.type))
                 /\ engine' = Len(engines) + 1
                 /\ th' = [th EXCEPT ![t].pc = "ge_return",
                                     ![t].ctors = Append(@, [device |-> d.type, ok |-> TRUE])]
            ELSE LET x == initialize_engine_error(d.type, CtorFailure(d.type)) IN
                 /\ UNCHANGED <<engine, engines>>
                 /\ IF d.type # "cpu"
                    THEN th' = [th EXCEPT ![t].pc = "ge_fallback", ![t].e = x,
                                     ![t].ctors = Append(@, [device |-> d.type, ok |-> FALSE])]
                    ELSE th' = [th EXCEPT ![t] = Ended(
                                     [th[t] EXCEPT !.ctors = Append(@, [device |-> d.type, ok |-> FALSE])],
                                     [NoResult EXCEPT !.kind = "raise",
                                         !.exc = Exc("EngineLoadError",
                                             {"Engine initialization failed on CPU"} \cup x.msg)])]
    /\ UNCHANGED <<wav, cls, env, device_info, fs, clock, calls, returned>>

GeFallback_forgets_device(t) ==
    /\ th[t].pc = "ge_fallback"
    /\ \E ok \in BOOLEAN :
         /\ Fails(~ok)
         /\ IF ok
            THEN /\ engines' = Append(engines, XTTSEngine(env, cpu_device.type))
                 /\ engine' = Len(engines) + 1
                 /\ UNCHANGED device_info
                 /\ th' = [th EXCEPT ![t].pc = "ge_setdevice",
                                     ![t].ctors = Append(@, [device |-> "cpu", ok |-> TRUE])]
            ELSE LET cpu_error == initialize_engine_error("cpu", CtorFailure("cpu")) IN
                 /\ UNCHANGED <<engine, engines>>
                 /\ device_info' = NoDevice
                 /\ th' = [th EXCEPT ![t] = Ended(
                                     [th[t] EXCEPT !.ctors = Append(@, [device |-> "cpu", ok |-> FALSE])],
                                     [NoResult EXCEPT !.kind = "raise",
                                         !.exc = both_failed_error(th[t].e, cpu_error)])]
    /\ UNCHANGED <<wav, cls, env, fs, clock, calls, returned>>

GeFallback_keeps_retrying(t) ==
    /\ th[t].pc = "ge_fallback"
    /\ \E ok \in BOOLEAN :
         /\ Fails(~ok)
         /\ IF ok
            THEN /\ engines' = Append(engines, XTTSEngine(env, cpu_device.type))
                 /\ engine' = Len(engines) + 1
                 /\ th' = [th EXCEPT ![t].pc = "ge_setdevice",
                                     ![t].ctors = Append(@, [device |-> "cpu", ok |-> TRUE])]
            ELSE /\ UNCHANGED <<engine, engines>>
                 /\ th' = [th EXCEPT ![t].ctors = Append(@, [device |-> "cpu", ok |-> FALSE])]
    /\ UNCHANGED <<wav, cls, env, device_info, fs, clock, calls, returned>>

\* lines 123-131 and 135-140: the one retry on cpu
GeFallback(t) ==
    /\ th[t].pc = "ge_fallback"
    /\ \E ok \in BOOLEAN :
         /\ Fails(~ok)
         /\ IF ok
            THEN /\ engines' = Append(engines, XTTSEngine(env, cpu_device.type))
                 /\ engine' = Len(engines) + 1
                 /\ th' = [th EXCEPT ![t].pc = "ge_setdevice",
                                     ![t].ctors = Append(@, [device |-> "cpu", ok |-> TRUE])]
            ELSE LET cpu_error == initialize_engine_error("cpu", CtorFailure("cpu")) IN
                 /\ UNCHANGED <<engine, engines>>
                 /\ th' = [th EXCEPT ![t] = Ended(
                                     [th[t] EXCEPT !.ctors = Append(@, [device |-> "cpu", ok |-> FALSE])],
                                     [NoResult EXCEPT !.kind = "raise",
                                         !.exc = both_failed_error(th[t].e, cpu_error)])]
    /\ UNCHANGED <<wav, cls, env, device_info, fs, clock, calls, returned>>

GeSetDevice_keeps_old(t) ==
    /\ th[t].pc = "ge_setdevice"
    /\ th' = [th EXCEPT ![t].pc = "ge_return"]
    /\ UNCHANGED <<wav, cls, env, device_info, engine, engines, fs, clock, calls, faults, returned>>

GeSetDevice_clears(t) ==
    /\ th[t].pc = "ge_setdevice"
    /\ device_info' = NoDevice
    /\ th' = [th EXCEPT ![t].pc = "ge_return"]
    /\ UNCHANGED <<wav, cls, env, engine, engines, fs, clock, calls, faults, returned>>

\* line 133: self._device_info = cpu_device
GeSetDevice(t) ==
    /\ th[t].pc = "ge_setdevice"
    /\ device_info' = cpu_device
    /\ th' = [th EXCEPT ![t].pc = "ge_return"]
    /\ UNCHANGED <<wav, cls, env, engine, engines, fs, clock, calls, faults, returned>>

\* -------------------------------------------------- filesystem helpers
\* if os.path.exists(output_path): try: os.remove(output_path) except: pass
\* `removed` is whether os.remove succeeded.
Cleanup(files, path, removed) ==
    IF files[path] # "absent" /\ removed THEN [files EXCEPT ![path] = "absent"] ELSE files

\* ------------------------------------------------- BaseTTSEngine.validate_text
validate_text(text) ==
    IF text = << >> THEN Exc("SynthesisError", {"Text input cannot be empty"})
    ELSE IF strip(text) = << >>
         THEN Exc("SynthesisError", {"Text input cannot be empty or whitespace only"})
         ELSE IF Len(strip(text)) > max_length
              THEN Exc("SynthesisError", {"Text input exceeds maximum length"})
              ELSE NoExc

\* ------------------------------------------------ EngineManager.synthesize
CallSynthesize(t) ==
    /\ th[t].pc = "idle"
    /\ calls > 0
    /\ calls' = calls - 1
    /\ \E text \in Texts, output_dir \in {"None", "out"} :
         th' = [th EXCEPT ![t] = [Frame(t, "synthesize", "syn_validate")
                                    EXCEPT !.text = text, !.output_dir = output_dir]]
    /\ UNCHANGED <<wav, cls, env, device_info, engine, engines, fs, clock, faults, returned>>

text_is_blank_no_strip(text) == text = << >>

\* line 195: not text or not text.strip()
text_is_blank(text) == text = << >> \/ strip(text) = << >>

\* lines 195-196: if not text or not text.strip(): raise SynthesisError
SynValidate(t) ==
    /\ th[t].pc = "syn_validate"
    /\ IF text_is_blank(th[t].text)
       THEN Raises(t, Exc("SynthesisError", {"Text input cannot be empty"}))
       ELSE th' = [th EXCEPT ![t].pc = "ge_check"]
    /\ UNCHANGED <<wav, cls, env, device_info, engine, engines, fs, clock, calls, faults, returned>>

\* lines 201-210: the output directory (os.makedirs may fail, outside any try)
\* and the file name from int(time.time()) and the text digest.  The clock is
\* observed only here: a reading is any second not before the previous reading.
SynOutputPath(t) ==
    /\ th[t].pc = "syn_outdir"
    /\ \/ /\ th[t].output_dir # "None"
          /\ Fails(TRUE)
          /\ Raises(t, Exc("OSError", {"cannot create output directory"}))
          /\ UNCHANGED clock
       \/ \E now \in clock..MaxTime :
            LET dir == IF th[t].output_dir = "None" THEN "tmp" ELSE th[t].output_dir IN
            /\ Fails(FALSE)
            /\ clock' = now
            /\ th' = [th EXCEPT ![t].pc = "x_enter",
                                ![t].output_path = OutputPath(dir, now, th[t].text)]
    /\ UNCHANGED <<wav, cls, env, device_info, engine, engines, fs, calls, returned>>

\* lines 215-218: audio_path = engine.synthesize(...); return audio_path
SynReturn(t) ==
    /\ th[t].pc = "syn_return"
    /\ Returns(t, [NoResult EXCEPT !.kind = "return", !.path = th[t].output_path])
    /\ UNCHANGED <<wav, cls, env, device_info, engine, engines, fs, clock, calls, faults, returned>>

\* lines 220-262: the handlers around engine.synthesize
HandledAs(x) ==
    IF x.type = "ImportError"
    THEN IF x.name = << >>
         THEN Exc("AttributeError", {"'NoneType' object has no attribute 'startswith'"})
         ELSE IF x.name = <<"TTS">> \/ (Len(x.name) > 1 /\ x.name[1] = "TTS")
              THEN Exc("EngineLoadError", {"Coqui TTS library not installed"})
              ELSE Exc("EngineLoadError",
                       {"XTTS failed during import phase", x.type} \cup x.msg)
    ELSE IF x.type \in {"SynthesisError", "EngineLoadError"}
         THEN x
         ELSE Exc("SynthesisError", {"Unexpected TTS runtime error", x.type} \cup x.msg)

\* Only the ImportError handler has no cleanup.
HandlerCleansUp(x) == x.type # "ImportError"

SynExcept(t) ==
    /\ th[t].pc = "syn_except"
    /\ IF HandlerCleansUp(th[t].exc) /\ fs[th[t].output_path] # "absent"
       THEN \E removed \in BOOLEAN :
              /\ Fails(~removed)
              /\ fs' = Cleanup(fs, th[t].output_path, removed)
       ELSE UNCHANGED <<fs, faults>>
    /\ Raises(t, HandledAs(th[t].exc))
    /\ UNCHANGED <<wav, cls, env, device_info, engine, engines, clock, calls, returned>>

\* ------------------------------------------------- XTTSEngine.load_model
\* What constructing the Coqui model (TTS(...), lines 113-125) can raise.
ModelFailures ==
    { ImportError({"No module named 'TTS'"}, <<"TTS">>),
      ImportError({"No module named 'TTS.api'"}, <<"TTS", "api">>),
      ImportError({"No module named 'torchaudio'"}, <<"torchaudio">>),
      ImportError({"cannot import name"}, << >>),
      Exc("RuntimeError", {"out of memory"}) }

\* lines 135-152: the handlers of load_model
load_model_error(x) ==
    IF x.type = "ImportError"
    THEN IF x.name = << >>
         THEN Exc("AttributeError", {"'NoneType' object has no attribute 'startswith'"})
         ELSE IF x.name = <<"TTS">> \/ (Len(x.name) > 1 /\ x.name[1] = "TTS")
              THEN Exc("EngineLoadError", {"Coqui TTS library not installed"})
              ELSE Exc("EngineLoadError", {"XTTS internal ImportError", x.type} \cup x.msg)
    ELSE Exc("EngineLoadError", {"Failed to load XTTS v2 model", x.type} \cup x.msg)

\* ------------------------------------------------- XTTSEngine.synthesize
\* What tts_to_file can raise, and the wrapping of lines 211-239.
TtsFailures ==
    { Exc("ValueError", {"speaker wav unreadable"}),
      Exc("ValueError", {"language not supported"}),
      Exc("RuntimeError", {"audio backend failure"}),
      Exc("RuntimeError", {"out of memory"}) }

tts_error(x) ==
    IF x.msg \cap {"speaker wav unreadable"} # {}
    THEN Exc("SynthesisError",
             {"XTTS synthesis failed", "Invalid speaker reference", x.type} \cup x.msg)
    ELSE IF x.msg \cap {"language not supported"} # {}
         THEN Exc("SynthesisError",
                  {"XTTS synthesis failed", "Language error", x.type} \cup x.msg)
         ELSE IF x.msg \cap {"audio backend failure"} # {}
              THEN Exc("SynthesisError",
                       {"XTTS synthesis failed", "Audio backend error", x.type} \cup x.msg)
              ELSE Exc("SynthesisError", {"XTTS synthesis failed", x.type} \cup x.msg)

\* engine.synthesize raised x: control passes to the handlers of
\* EngineManager.synthesize
Propagate(t, x) ==
    th' = [th EXCEPT ![t].pc = "syn_except", ![t].exc = x]

\* lines 166-170 and 108: validate_text, then the ready flag
XEnter(t) ==
    /\ th[t].pc = "x_enter"
    /\ LET x == validate_text(th[t].text) IN
       IF x # NoExc
       THEN Propagate(t, x)
       ELSE th' = [th EXCEPT ![t].pc =
                      IF engines[th[t].eng].model_loaded THEN "x_resolve" ELSE "x_load"]
    /\ UNCHANGED <<wav, cls, env, device_info, engine, engines, fs, clock, calls, faults, returned>>

\* lines 112-125 and 135-152: self._tts_model = TTS(...)
XLoad(t) ==
    /\ th[t].pc = "x_load"
    /\ \/ /\ Fails(FALSE)
          /\ engines' = [engines EXCEPT ![th[t].eng].tts_model = @ + 1]
          /\ th' = [th EXCEPT ![t].pc = "x_loaded"]
       \/ /\ Fails(TRUE)
          /\ \E x \in ModelFailures : Propagate(t, load_model_error(x))
          /\ UNCHANGED engines
    /\ UNCHANGED <<wav, cls, env, device_info, engine, fs, clock, calls, returned>>

\* lines 129-133: synthesizer.to(device), then self._model_loaded = True
XLoaded(t) ==
    /\ th[t].pc = "x_loaded"
    /\ \/ /\ Fails(FALSE)
          /\ engines' = [engines EXCEPT ![th[t].eng].model_loaded = TRUE]
          /\ th' = [th EXCEPT ![t].pc = "x_resolve"]
       \/ /\ Fails(TRUE)
          /\ Propagate(t, load_model_error(Exc("RuntimeError", {"device placement failed"})))
          /\ UNCHANGED engines
    /\ UNCHANGED <<wav, cls, env, device_info, engine, fs, clock, calls, returned>>

XResolve_no_speaker_check(t) ==
    /\ th[t].pc = "x_resolve"
    /\ IF engines[th[t].eng].tts_model = 0
       THEN /\ Propagate(t, Exc("SynthesisError", {"Model not loaded"}))
            /\ UNCHANGED faults
       ELSE \E made \in BOOLEAN :
              /\ Fails(~made)
              /\ IF ~made
                 THEN Propagate(t, Exc("OSError", {"cannot create output directory"}))
                 ELSE th' = [th EXCEPT ![t].pc = "x_tts"]
    /\ UNCHANGED <<wav, cls, env, device_info, engine, engines, fs, clock, calls, returned>>

\* lines 172-193: the model handle, the output directory, the reference voice
XResolve(t) ==
    /\ th[t].pc = "x_resolve"
    /\ IF engines[th[t].eng].tts_model = 0
       THEN /\ Propagate(t, Exc("SynthesisError", {"Model not loaded"}))
            /\ UNCHANGED faults
       ELSE \E made \in BOOLEAN :
              /\ Fails(~made)
              /\ IF ~made
                 THEN Propagate(t, Exc("OSError", {"cannot create output directory"}))
                 ELSE IF ~env.speaker
                      THEN Propagate(t, Exc("SynthesisError", {"Default speaker file not found"}))
                      ELSE th' = [th EXCEPT ![t].pc = "x_tts"]
    /\ UNCHANGED <<wav, cls, env, device_info, engine, engines, fs, clock, calls, returned>>

\* line 205: tts_to_file starts; it may fail before any output, open the
\* target file, or return without having produced a file
XTtsOpen(t) ==
    /\ th[t].pc = "x_tts"
    /\ \/ /\ Fails(TRUE)
          /\ \E x \in TtsFailures :
               th' = [th EXCEPT ![t].pc = "x_cleanup", ![t].exc = tts_error(x),
                                ![t].tts_calls = @ + 1]
          /\ UNCHANGED fs
       \/ /\ Fails(FALSE)
          /\ fs' = [fs EXCEPT ![th[t].output_path] = "empty"]
          /\ th' = [th EXCEPT ![t].pc = "x_tts_write", ![t].tts_calls = @ + 1]
       \/ /\ Fails(TRUE)
          /\ th' = [th EXCEPT ![t].pc = "x_verify", ![t].tts_calls = @ + 1]
          /\ UNCHANGED fs
    /\ UNCHANGED <<wav, cls, env, device_info, engine, engines, clock, calls, returned>>

\* line 205, continued: the samples are written, or nothing is, or the write
\* fails part-way
XTtsWrite(t) ==
    /\ th[t].pc = "x_tts_write"
    /\ \/ /\ Fails(FALSE)
          /\ fs' = [fs EXCEPT ![th[t].output_path] = "full"]
          /\ th' = [th EXCEPT ![t].pc = "x_verify"]
       \/ /\ Fails(TRUE)
          /\ UNCHANGED fs
          /\ th' = [th EXCEPT ![t].pc = "x_verify"]
       \/ /\ Fails(TRUE)
          /\ fs' = [fs EXCEPT ![th[t].output_path] = "partial"]
          /\ \E x \in TtsFailures :
               th' = [th EXCEPT ![t].pc = "x_cleanup", ![t].exc = tts_error(x)]
    /\ UNCHANGED <<wav, cls, env, device_info, engine, engines, clock, calls, returned>>

verify_output_exists_only(content) ==
    IF content = "absent"
    THEN Exc("SynthesisError", {"Audio file was not created"})
    ELSE NoExc

\* lines 242-250: os.path.exists, then os.path.getsize(output_path) == 0
verify_output(content) ==
    IF content = "absent"
    THEN Exc("SynthesisError", {"Audio file was not created"})
    ELSE IF content = "empty"
         THEN Exc("SynthesisError", {"Generated audio file is empty"})
         ELSE NoExc

\* lines 241-256: the output must exist and be non-empty
XVerify(t) ==
    /\ th[t].pc = "x_verify"
    /\ LET x == verify_output(fs[th[t].output_path]) IN
       IF x # NoExc
       THEN th' = [th EXCEPT ![t].pc = "x_cleanup", ![t].exc = x]
       ELSE th' = [th EXCEPT ![t].pc = "syn_return"]
    /\ UNCHANGED <<wav, cls, env, device_info, engine, engines, fs, clock, calls, faults, returned>>

\* lines 258-266: remove the partial file, re-raise
XCleanup(t) ==
    /\ th[t].pc = "x_cleanup"
    /\ IF fs[th[t].output_path] # "absent"
       THEN \E removed \in BOOLEAN :
              /\ Fails(~removed)
              /\ fs' = Cleanup(fs, th[t].output_path, removed)
       ELSE UNCHANGED <<fs, faults>>
    /\ th' = [th EXCEPT ![t].pc = "syn_except"]
    /\ UNCHANGED <<wav, cls, env, device_info, engine, engines, clock, calls, returned>>

\* --------------------------------------------- BaseTTSEngine.synthesize
\* The manager calls the engine through the BaseTTSEngine interface, whose
\* contract lets synthesize raise SynthesisError or any other TTSError; the
\* manager's own handlers also provide for ImportError and for any Exception.
\* A failing capability may leave nothing or a partial file at the path.
CapabilityFailures ==
    { Exc("SynthesisError", {"capability failed"}),
      Exc("EngineLoadError", {"capability failed"}),
      Exc("DeviceError", {"capability failed"}),
      Exc("AudioWriteError", {"capability failed"}),
      Exc("RuntimeError", {"capability failed"}),
      ImportError({"capability failed"}, <<"TTS">>),
      ImportError({"capability failed"}, <<"torchaudio">>),
      ImportError({"capability failed"}, << >>) }

CapabilityRaises(t) ==
    /\ th[t].pc = "x_enter"
    /\ Fails(TRUE)
    /\ \E x \in CapabilityFailures, wrote \in BOOLEAN :
         /\ fs' = IF wrote THEN [fs EXCEPT ![th[t].output_path] = "partial"] ELSE fs
         /\ Propagate(t, x)
    /\ UNCHANGED <<wav, cls, env, device_info, engine, engines, clock, calls, returned>>

\* ------------------------------------------------------ writer.write_wav
manager == <<env, device_info, engine, engines, fs, clock, calls, faults, returned, th, cls>>

WavRaises(x) ==
    [wav EXCEPT !.pc = "done",
                !.result = [kind |-> "raise", path |-> NoWavPath, exc |-> x]]

\* The call, with its arguments; the disk is as the call finds it.
WavCall ==
    /\ wav.pc = "idle"
    /\ \E a \in AudioData, r \in SampleRates, c \in ChannelCounts, p \in OutputPathArgs :
         wav' = [wav EXCEPT !.pc = "w_validate", !.audio_data = a, !.sample_rate = r,
                            !.channels = c, !.output_path = p, !.before = wav.disk]
    /\ UNCHANGED manager

validate_parameters_any_channels(sample_rate, channels, audio_data) ==
    IF sample_rate <= 0
    THEN Exc("AudioWriteError", {"Invalid sample rate"})
    ELSE IF audio_data = << >>
         THEN Exc("AudioWriteError", {"Audio data cannot be empty"})
         ELSE NoExc

\* lines 87-94: the three parameter checks, in the code's order
validate_parameters(sample_rate, channels, audio_data) ==
    IF sample_rate <= 0
    THEN Exc("AudioWriteError", {"Invalid sample rate"})
    ELSE IF channels \notin {1, 2}
         THEN Exc("AudioWriteError", {"Unsupported channel count"})
         ELSE IF audio_data = << >>
              THEN Exc("AudioWriteError", {"Audio data cannot be empty"})
              ELSE NoExc

\* lines 87-109
WavValidate ==
    /\ wav.pc = "w_validate"
    /\ LET x == validate_parameters(wav.sample_rate, wav.channels, wav.audio_data) IN
       wav' = IF x # NoExc THEN WavRaises(x) ELSE [wav EXCEPT !.pc = "w_path"]
    /\ UNCHANGED manager

\* lines 112-121: a fresh temporary file, or the directory of the given path
WavResolve ==
    /\ wav.pc = "w_path"
    /\ IF wav.output_path = NoWavPath
       THEN \/ wav' = [wav EXCEPT !.pc = "w_convert", !.path = TempTarget,
                                  !.disk.files[TempTarget] = EmptyFile, !.io = @ + 1]
            \/ wav' = WavRaises(Exc("OSError", {"cannot create temporary file"}))
       ELSE LET p == abspath(wav.output_path) IN
            IF dirname(p).parts \in wav.disk.dirs
            THEN wav' = [wav EXCEPT !.pc = "w_convert", !.path = p]
            ELSE \/ wav' = [wav EXCEPT !.pc = "w_convert", !.path = p,
                                       !.disk.dirs = @ \cup {dirname(p).parts},
                                       !.io = @ + 1]
                 \/ wav' = WavRaises(Exc("OSError", {"cannot create output directory"}))
    /\ UNCHANGED manager

\* lines 124-127
WavConvert ==
    /\ wav.pc = "w_convert"
    /\ LET r == audio_to_pcm_bytes(wav.audio_data) IN
       wav' = IF r.exc # NoExc
              THEN WavRaises(Exc("AudioWriteError",
                                 {"Failed to convert audio data to PCM"} \cup r.exc.msg))
              ELSE [wav EXCEPT !.pc = "w_open", !.pcm_samples = r.pcm_samples,
                               !.pcm_bytes = r.pcm_bytes]
    /\ UNCHANGED manager

\* _write_wav_file, line 221: wave.open(output_path, 'wb') truncates or
\* creates the file, or fails and leaves the path as it was
WavOpen ==
    /\ wav.pc = "w_open"
    /\ \/ wav' = [wav EXCEPT !.pc = "w_frames", !.disk.files[wav.path] = EmptyFile,
                             !.io = @ + 1]
       \/ wav' = [wav EXCEPT !.pc = "w_failed",
                             !.e = Exc("AudioWriteError",
                                       {"Failed to write WAV file", "cannot open"})]
    /\ UNCHANGED manager

\* What a write that fails after the open leaves behind, once the with-block
\* has closed the file: nothing, the header alone, or the header and a
\* truncated payload.
Leftovers(channels, sample_rate, pcm_bytes) ==
    { EmptyFile,
      WavFile(channels, DEFAULT_SAMPLE_WIDTH, sample_rate, << >>),
      WavFile(channels, DEFAULT_SAMPLE_WIDTH, sample_rate,
              SubSeq(pcm_bytes, 1, Len(pcm_bytes) - 1)) }

\* _write_wav_file, lines 223-230: the parameters, writeframes, close
WavFrames ==
    /\ wav.pc = "w_frames"
    /\ \/ wav' = [wav EXCEPT !.pc = "w_verify", !.io = @ + 1,
                             !.disk.files[wav.path] =
                                 WavFile(wav.channels, DEFAULT_SAMPLE_WIDTH,
                                         wav.sample_rate, wav.pcm_bytes)]
       \/ \E left \in Leftovers(wav.channels, wav.sample_rate, wav.pcm_bytes) :
            wav' = [wav EXCEPT !.pc = "w_failed", !.io = @ + 1,
                               !.disk.files[wav.path] = left,
                               !.e = Exc("AudioWriteError",
                                         {"Failed to write WAV file", "write failed"})]
    /\ UNCHANGED manager

\* lines 137-144: remove what is at the path (a failing os.remove is
\* swallowed), then AudioWriteError
WavFailed ==
    /\ wav.pc = "w_failed"
    /\ LET x == Exc("AudioWriteError", {"Failed to write WAV file to"} \cup wav.e.msg) IN
       IF wav.disk.files[wav.path].exists
       THEN \/ wav' = [WavRaises(x) EXCEPT !.disk.files[wav.path] = NoFile, !.io = @ + 1]
            \/ wav' = WavRaises(x)
       ELSE wav' = WavRaises(x)
    /\ UNCHANGED manager

\* Between the write and the check of lines 147-150 the file may be removed
\* or emptied from outside the call.
WavDisturb ==
    /\ wav.pc = "w_verify"
    /\ ~wav.disturbed
    /\ \E f \in {NoFile, EmptyFile} :
         wav' = [wav EXCEPT !.disturbed = TRUE, !.disk.files[wav.path] = f]
    /\ UNCHANGED manager

\* lines 147-154
WavVerify ==
    /\ wav.pc = "w_verify"
    /\ LET f == wav.disk.files[wav.path] IN
       IF ~f.exists
       THEN wav' = WavRaises(Exc("AudioWriteError", {"WAV file was not created"}))
       ELSE IF getsize(f) = 0
            THEN \/ wav' = [WavRaises(Exc("AudioWriteError", {"WAV file is empty"}))
                               EXCEPT !.disk.files[wav.path] = NoFile, !.io = @ + 1]
                 \/ wav' = WavRaises(Exc("OSError", {"cannot remove"}))
            ELSE wav' = [wav EXCEPT !.pc = "done",
                                    !.result = [kind |-> "return", path |-> wav.path,
                                                exc |-> NoExc]]
    /\ UNCHANGED manager

\* ------------------------------------- EngineManager(): the shared instance
\* A call that runs in one step from the caller's point of view: the task is
\* idle before and after, and keeps what it was handed.
Observed(t, op, result) ==
    th' = [th EXCEPT ![t] = [Idle EXCEPT !.op = op, !.before = returned, !.result = result]]

Construct_resets(t) ==
    /\ th[t].pc = "idle"
    /\ LET inst == IF cls.instance = 0 THEN 1 ELSE cls.instance IN
       /\ cls' = [instance |-> inst, initialized |-> TRUE]
       /\ engine' = 0
       /\ device_info' = NoDevice
       /\ Observed(t, "EngineManager", [NoResult EXCEPT !.kind = "return", !.instance = inst])
    /\ UNCHANGED <<wav, env, engines, fs, clock, calls, faults, returned>>

\* lines 49-55: __new__ hands out cls._instance, creating it when it is None;
\* lines 57-66: __init__ clears the caches unless _initialized is set
Construct(t) ==
    /\ th[t].pc = "idle"
    /\ LET inst == IF cls.instance = 0 THEN 1 ELSE cls.instance IN
       /\ cls' = [instance |-> inst, initialized |-> TRUE]
       /\ IF ~cls.initialized
          THEN engine' = 0 /\ device_info' = NoDevice
          ELSE UNCHANGED <<engine, device_info>>
       /\ Observed(t, "EngineManager", [NoResult EXCEPT !.kind = "return", !.instance = inst])
    /\ UNCHANGED <<wav, env, engines, fs, clock, calls, faults, returned>>

\* lines 264-271: return self._engine is not None
IsInitialized(t) ==
    /\ th[t].pc = "idle"
    /\ cls.instance # 0
    /\ Observed(t, "is_initialized", [NoResult EXCEPT !.kind = "return", !.flag = (engine # 0)])
    /\ UNCHANGED <<wav, cls, env, device_info, engine, engines, fs, clock, calls, faults, returned>>

GetCurrentDevice_detects(t) ==
    /\ th[t].pc = "idle"
    /\ cls.instance # 0
    /\ device_info' = IF device_info = NoDevice THEN detect_device(env) ELSE device_info
    /\ Observed(t, "get_current_device", [NoResult EXCEPT !.kind = "return", !.device = device_info'])
    /\ UNCHANGED <<wav, cls, env, engine, engines, fs, clock, calls, faults, returned>>

\* lines 273-280: return self._device_info
GetCurrentDevice(t) ==
    /\ th[t].pc = "idle"
    /\ cls.instance # 0
    /\ Observed(t, "get_current_device", [NoResult EXCEPT !.kind = "return", !.device = device_info])
    /\ UNCHANGED <<wav, cls, env, device_info, engine, engines, fs, clock, calls, faults, returned>>

\* ------------------------------------------------------------ specification
Step(t) ==
    \/ CallGetDeviceInfo(t)
    \/ GdiCheck(t)
    \/ GdiDetect(t)
    \/ GdiReturn(t)
    \/ CallGetEngine(t)
    \/ GeCheck(t)
    \/ GeReturn(t)
    \/ GeInit(t)
    \/ GeFallback(t)
    \/ GeSetDevice(t)
    \/ CallSynthesize(t)
    \/ SynValidate(t)
    \/ SynOutputPath(t)
    \/ SynReturn(t)
    \/ SynExcept(t)
    \/ XEnter(t)
    \/ XLoad(t)
    \/ XLoaded(t)
    \/ XResolve(t)
    \/ XTtsOpen(t)
    \/ XTtsWrite(t)
    \/ XVerify(t)
    \/ XCleanup(t)
    \/ CapabilityRaises(t)

Next == \E t \in Tasks : Step(t)

Spec == Init /\ [][Next]_vars

\* One request at a time: task 1 issues every call.
SeqNext == Step(1)

SeqSpec == SeqInit /\ [][SeqNext]_vars

\* A request that has been started keeps running: the thread serving it is
\* scheduled until its call returns or raises.
SeqFairSpec == SeqSpec /\ WF_vars(SeqNext)

\* The life of the process: the class starts unconstructed; task 2 constructs
\* the manager and observes it at any moment, also while task 1 is inside a
\* request.
MaxLifeCalls == 2
MaxLifeFaults == 2

LifeInit ==
    /\ env \in Envs
    /\ device_info = NoDevice
    /\ engine = 0
    /\ engines = << >>
    /\ fs = [p \in Paths |-> "absent"]
    /\ clock = 0
    /\ returned = {}
    /\ th = [t \in Tasks |-> Idle]
    /\ cls = NotConstructed
    /\ wav = WavIdle
    /\ faults = MaxLifeFaults
    /\ calls = MaxLifeCalls

\* app.py 59 and 107: every request goes through the constructed manager
Request == cls.instance # 0 /\ Step(1)

LifeNext ==
    \/ Construct(2)
    \/ IsInitialized(2)
    \/ GetCurrentDevice(2)
    \/ Request

LifeSpec == LifeInit /\ [][LifeNext]_vars

\* write_wav on its own: the manager never calls it, so its calls are checked
\* on a manager at rest.
WavInit ==
    /\ env = Host(FALSE, FALSE, FALSE, TRUE, TRUE)
    /\ device_info = NoDevice
    /\ engine = 0
    /\ engines = << >>
    /\ fs = [p \in Paths |-> "absent"]
    /\ clock = 0
    /\ returned = {}
    /\ th = [t \in Tasks |-> Idle]
    /\ cls = Constructed
    /\ faults = 0
    /\ calls = 0
    /\ wav \in { [WavIdle EXCEPT !.disk = d] : d \in Disks }

WavNext ==
    \/ WavCall
    \/ WavValidate
    \/ WavResolve
    \/ WavConvert
    \/ WavOpen
    \/ WavFrames
    \/ WavFailed
    \/ WavDisturb
    \/ WavVerify

WavSpec == WavInit /\ [][WavNext]_vars

\* ===================================================================== claims
Recognized == {"Synthesis", "EngineLoad", "Device", "AudioWrite"}

\* Task t's last call is over and was a call of op.
Done(t, op) == th[t].pc = "idle" /\ th[t].op = op

\* The call's construction attempts: one failure off cpu, then the cpu retry.
Retried(t, cpu_ok) ==
    /\ Len(th[t].ctors) = 2
    /\ th[t].ctors[1].device # "cpu" /\ ~th[t].ctors[1].ok
    /\ th[t].ctors[2].device = "cpu" /\ th[t].ctors[2].ok = cpu_ok

\* C1 -- Fallback.  With one request at a time: a get_engine() call whose
\* construction failed on the detected non-cpu device and succeeded on cpu
\* returns an engine; afterwards the engine is cached (is_initialized()) and
\* get_current_device() is the cpu fallback descriptor, of type cpu, and not
\* the descriptor that was detected.
C1_Fallback ==
    \A t \in Tasks :
        Done(t, "get_engine") /\ Retried(t, TRUE)
        => /\ th[t].result.kind = "return"
           /\ th[t].result.engine # 0
           /\ engine = th[t].result.engine
           /\ engines[engine].device = "cpu"
           /\ device_info = cpu_device
           /\ device_info.type = "cpu"
           /\ device_info # detect_device(env)

C1_Witness ==
    \E t \in Tasks :
        /\ Done(t, "get_engine") /\ Retried(t, TRUE)
        /\ detect_device(env).type = "rocm"
        /\ th[t].result.kind = "return"

\* C2 -- Double fallback failure.  With one request at a time: a get_engine()
\* call whose construction failed on the detected non-cpu device and on cpu
\* raises EngineLoad, the message holds both underlying failure messages, and
\* no engine is cached afterwards (is_initialized() is false).
C2_DoubleFailure ==
    \A t \in Tasks :
        Done(t, "get_engine") /\ Retried(t, FALSE)
        => /\ th[t].result.kind = "raise"
           /\ Kind(th[t].result.exc) = "EngineLoad"
           /\ CtorFailure(th[t].ctors[1].device).msg \subseteq th[t].result.exc.msg
           /\ CtorFailure("cpu").msg \subseteq th[t].result.exc.msg
           /\ engine = 0

C2_Witness ==
    \E t \in Tasks :
        /\ Done(t, "get_engine") /\ Retried(t, FALSE)
        /\ th[t].result.kind = "raise"

\* C3 -- At-most-once initialization under concurrency.  In every interleaving
\* of get_engine() calls, at most one engine is ever constructed, and every
\* handle a call returned is the one cached handle.
C3_AtMostOnce ==
    /\ Len(engines) <= 1
    /\ Cardinality(returned) <= 1
    /\ returned \subseteq {engine}

\* C4 -- Idempotence of get_engine().  With one request at a time: a
\* get_engine() call that begins after some get_engine() has returned a handle
\* returns that same handle, and runs neither detection nor construction.
C4_Idempotent ==
    \A t \in Tasks :
        Done(t, "get_engine") /\ th[t].before # {}
        => /\ th[t].result.kind = "return"
           /\ th[t].before = {th[t].result.engine}
           /\ th[t].detects = 0
           /\ th[t].ctors = << >>
           /\ Len(engines) = 1

C4_Witness ==
    \E t \in Tasks :
        /\ Done(t, "get_engine") /\ th[t].before # {}
        /\ th[t].result.kind = "return"

\* C5 -- Blank text.  For every empty or whitespace-only text, synthesize
\* raises Synthesis, runs neither detection nor construction, and the step that
\* rejects the text leaves the cached device, the cached engine, the engine
\* objects and the filesystem as they were.
C5_BlankTextStep ==
    \A t \in Tasks :
        (th[t].pc = "syn_validate" /\ th'[t].pc # "syn_validate"
            /\ strip(th[t].text) = << >>)
        => /\ th'[t].pc = "idle"
           /\ UNCHANGED <<device_info, engine, engines, fs>>

C5_BlankTextCall ==
    \A t \in Tasks :
        (th[t].op = "synthesize" /\ strip(th[t].text) = << >>)
        => /\ th[t].pc \in {"syn_validate", "idle"}
           /\ th[t].detects = 0 /\ th[t].ctors = << >> /\ th[t].tts_calls = 0
           /\ th[t].pc = "idle"
              => th[t].result.kind = "raise" /\ Kind(th[t].result.exc) = "Synthesis"

C5_BlankText == [][C5_BlankTextStep]_vars /\ []C5_BlankTextCall

C5_Witness ==
    \E t \in Tasks :
        /\ Done(t, "synthesize") /\ th[t].text = <<" ">>
        /\ th[t].result.kind = "raise"
        /\ engine # 0

\* C6 -- Returned path.  With one request at a time: when synthesize has
\* returned a path for a non-blank text, a file of more than zero bytes is at
\* that path.
C6_ReturnedFile ==
    \A t \in Tasks :
        Done(t, "synthesize") /\ th[t].result.kind = "return"
        => /\ strip(th[t].text) # << >>
           /\ th[t].result.path = th[t].output_path
           /\ fs[th[t].result.path] \notin {"absent", "empty"}

C6_Witness ==
    \E t \in Tasks :
        /\ Done(t, "synthesize") /\ th[t].result.kind = "return"
        /\ fs[th[t].result.path] = "full"

\* C7 -- Closed error taxonomy.  Whenever synthesize raises, the error is of
\* kind Synthesis, EngineLoad, Device or AudioWrite.
C7_ClosedTaxonomy ==
    \A t \in Tasks :
        Done(t, "synthesize") /\ th[t].result.kind = "raise"
        => Kind(th[t].result.exc) \in Recognized

\* C8 -- Cleanup on failure.  Whenever synthesize raises after the engine's
\* synthesize call failed, whatever was raised, no file is at the computed
\* output path when the error reaches the caller.
C8_CleanupOnFailure ==
    \A t \in Tasks :
        Done(t, "synthesize") /\ th[t].result.kind = "raise" /\ th[t].exc # NoExc
        => fs[th[t].output_path] = "absent"

\* C9 -- Error-kind preservation.  When the engine's synthesize call raised a
\* failure of a recognized kind, the caller gets that same failure; a failure
\* of any other type reaches the caller as a Synthesis error whose message
\* holds the original type name and message.
C9_KindPreserved ==
    \A t \in Tasks :
        Done(t, "synthesize") /\ th[t].exc # NoExc
        => /\ th[t].result.kind = "raise"
           /\ IF Kind(th[t].exc) \in Recognized
              THEN th[t].result.exc = th[t].exc
              ELSE /\ Kind(th[t].result.exc) = "Synthesis"
                   /\ th[t].exc.type \in th[t].result.exc.msg
                   /\ th[t].exc.msg \subseteq th[t].result.exc.msg

\* C10 -- Detection failure does not poison state.  With one request at a
\* time: a get_device_info() or get_engine() call in which detect_device()
\* failed raises Device, attempted no construction, and leaves device and
\* engine absent; the call after it runs detection again, and if detection
\* then succeeds the device is cached and get_device_info() returns it.
C10_DetectionRetry ==
    \A t \in Tasks :
        /\ ((Done(t, "get_device_info") \/ Done(t, "get_engine"))
              /\ th[t].result.exc.type = "DeviceError")
           => /\ Kind(th[t].result.exc) = "Device"
              /\ th[t].detects = 1
              /\ th[t].ctors = << >>
              /\ device_info = NoDevice
              /\ engine = 0
        /\ ((Done(t, "get_device_info") \/ Done(t, "get_engine"))
              /\ th[t].prev = "Device")
           => /\ th[t].detects = 1
              /\ (th[t].result.exc.type # "DeviceError")
                 => /\ device_info # NoDevice
                    /\ Done(t, "get_device_info")
                       => /\ th[t].result.kind = "return"
                          /\ th[t].result.device = detect_device(env)
                          /\ device_info = detect_device(env)

C10_Witness ==
    \E t \in Tasks :
        /\ Done(t, "get_device_info") /\ th[t].prev = "Device"
        /\ th[t].result.kind = "return"

\* Task t's last call is over and went through get_engine(), directly or
\* inside synthesize.
Initialized(t) == th[t].pc = "idle" /\ th[t].op \in {"get_engine", "synthesize"}

\* Task t's call began right after a call that raised EngineLoad with no
\* engine ever handed out: get_engine() had exhausted its attempts.
AfterExhausted(t) ==
    /\ Done(t, "get_engine")
    /\ th[t].prev = "EngineLoad" /\ th[t].before = {}
    /\ detect_device(env).type # "cpu"

\* C11 -- Restart after exhausted fallback.  With one request at a time: the
\* get_engine() call that follows one that raised EngineLoad on a non-cpu host
\* runs no detection, attempts the detected device first and cpu only after
\* that attempt failed, returns an engine when either attempt succeeds and
\* raises EngineLoad when both fail.
C11_Restart ==
    \A t \in Tasks :
        AfterExhausted(t)
        => /\ th[t].detects = 0
           /\ Len(th[t].ctors) \in {1, 2}
           /\ th[t].ctors[1].device = detect_device(env).type
           /\ th[t].ctors[1].ok <=> Len(th[t].ctors) = 1
           /\ Len(th[t].ctors) = 2 => th[t].ctors[2].device = "cpu"
           /\ th[t].ctors[Len(th[t].ctors)].ok
              => /\ th[t].result.kind = "return"
                 /\ th[t].result.engine = engine /\ engine # 0
                 /\ engines[engine].device = th[t].ctors[Len(th[t].ctors)].device
           /\ ~th[t].ctors[Len(th[t].ctors)].ok
              => /\ th[t].result.kind = "raise"
                 /\ Kind(th[t].result.exc) = "EngineLoad"
                 /\ engine = 0

C11_Witness ==
    \E t \in Tasks :
        /\ AfterExhausted(t)
        /\ Len(th[t].ctors) = 2 /\ th[t].ctors[2].ok
        /\ th[t].result.kind = "return"

\* C12 -- No retry from cpu.  With one request at a time: a call whose first
\* construction attempt was on cpu and failed made that one attempt only,
\* raised EngineLoad carrying the failure's message, and cached no engine.
C12_NoRetryFromCpu ==
    \A t \in Tasks :
        (Initialized(t) /\ th[t].ctors # << >>
            /\ th[t].ctors[1].device = "cpu" /\ ~th[t].ctors[1].ok)
        => /\ Len(th[t].ctors) = 1
           /\ th[t].result.kind = "raise"
           /\ Kind(th[t].result.exc) = "EngineLoad"
           /\ CtorFailure("cpu").msg \subseteq th[t].result.exc.msg
           /\ engine = 0

C12_Witness ==
    \E t \in Tasks :
        /\ Done(t, "get_engine") /\ Len(th[t].ctors) = 1
        /\ th[t].ctors[1].device = "cpu" /\ ~th[t].ctors[1].ok
        /\ device_info.type = "cpu"
        /\ th[t].result.kind = "raise"

\* C13 -- Fallback before EngineLoad.  Whenever synthesize raises EngineLoad
\* while the device in use is not cpu, the same request attempted a
\* construction on cpu before the error was raised.
C13_FallbackFirst ==
    \A t \in Tasks :
        (Done(t, "synthesize") /\ th[t].result.kind = "raise"
            /\ Kind(th[t].result.exc) = "EngineLoad"
            /\ device_info.type \notin {"cpu", "None"})
        => \E i \in 1..Len(th[t].ctors) : th[t].ctors[i].device = "cpu"

\* C14 -- Per-request-unique output paths.  No two synthesize calls, whether
\* they overlap or not, and also when their text and directory are the same,
\* compute the same output path.
C14_UniquePaths ==
    \A t1, t2 \in Tasks :
        (t1 # t2 /\ th[t1].output_path # NoPath /\ th[t2].output_path # NoPath)
        => th[t1].output_path # th[t2].output_path

\* The kind of device the host's environment calls for.
C20_Kind ==
    IF env.torch /\ env.cuda_available
    THEN IF env.hip THEN "rocm" ELSE "cuda"
    ELSE "cpu"

\* C20 -- detect_device().  In every interleaving: a detection that no probe
\* failure interrupts returns, whatever hardware is missing; the descriptor is
\* rocm when the accelerator is available and HIP metadata is set, cuda when
\* it is available and HIP metadata is not set, cpu otherwise (also without
\* torch); and it equals the descriptor an earlier detection cached.
C20_DetectStep ==
    \A t \in Tasks :
        (th[t].pc = "gdi_detect" /\ th'[t].pc # "gdi_detect" /\ faults' = faults)
        => /\ th'[t].pc = "gdi_return"
           /\ device_info'.type = C20_Kind
           /\ device_info'.type \in {"cuda", "rocm", "cpu"}
           /\ device_info'.torch_device = (IF C20_Kind = "cpu" THEN "cpu" ELSE "cuda")
           /\ device_info \notin {NoDevice, cpu_device} => device_info' = device_info

C20_DetectDevice == [][C20_DetectStep]_vars

C20_Witness ==
    \E t1, t2 \in Tasks :
        /\ t1 # t2
        /\ th[t1].detects = 1 /\ th[t1].pc = "gdi_return"
        /\ th[t2].detects = 1 /\ th[t2].pc = "gdi_return"
        /\ device_info.type = "rocm"

\* write_wav is over.
WavDone == wav.pc = "done"

WavInvalid == wav.sample_rate <= 0 \/ wav.channels \notin {1, 2} \/ wav.audio_data = << >>

C16_CleanupOnWriteFailure ==
    (WavDone /\ "write failed" \in wav.e.msg)
    => /\ wav.result.kind = "raise"
       /\ Kind(wav.result.exc) = "AudioWrite"
       /\ getsize(wav.disk.files[wav.path]) = 0

\* r is the 16-bit value of sample s: an integer limited to [-32768, 32767];
\* a float limited to [-1.0, 1.0], times 32767, rounded toward zero.
C17_Encodes(s, r) ==
    IF s.kind = "int"
    THEN r = (IF s.v < 0 - 32768 THEN 0 - 32768 ELSE IF s.v > 32767 THEN 32767 ELSE s.v)
    ELSE LET c == IF s.v < 0 - FloatDen THEN 0 - FloatDen
                  ELSE IF s.v > FloatDen THEN FloatDen ELSE s.v
             n == c * 32767
         IN  IF n >= 0
             THEN r >= 0 /\ r * FloatDen <= n /\ n < (r + 1) * FloatDen
             ELSE r <= 0 /\ r * FloatDen >= n /\ n > (r - 1) * FloatDen

\* C17 -- Sample clamping.  The conversion fails only for a sample that is
\* neither float nor int; otherwise every sample is encoded as its clamped
\* 16-bit value, which lies in [-32768, 32767]; the integer -40000 is encoded
\* as -32768 is, and the float 2.0 as the float 1.0 is.
C17_Clamping ==
    /\ (WavDone /\ "Failed to convert audio data to PCM" \in wav.result.exc.msg)
       => \E i \in 1..Len(wav.audio_data) : wav.audio_data[i].kind \notin {"float", "int"}
    /\ wav.pc \in {"w_open", "w_frames", "w_failed", "w_verify"}
       => /\ Len(wav.pcm_samples) = Len(wav.audio_data)
          /\ Len(wav.pcm_bytes) = 2 * Len(wav.audio_data)
          /\ \A i \in 1..Len(wav.audio_data) :
               LET s == wav.audio_data[i]
                   bytes == SubSeq(wav.pcm_bytes, 2 * i - 1, 2 * i)
               IN  /\ C17_Encodes(s, wav.pcm_samples[i])
                   /\ wav.pcm_samples[i] >= 0 - 32768 /\ wav.pcm_samples[i] <= 32767
                   /\ bytes[1] \in 0..255 /\ bytes[2] \in 0..255
                   /\ s \in {IntSample(0 - 40000), IntSample(0 - 32768)} => bytes = <<0, 128>>
                   /\ s \in {FloatSample(2 * FloatDen), FloatSample(FloatDen)}
                      => bytes = <<255, 127>>

C17_Witness ==
    /\ wav.pc = "w_open"
    /\ wav.audio_data = <<IntSample(0 - 40000), FloatSample(2 * FloatDen)>>

\* Reading a container back: a little-endian signed 16-bit sample
from_bytes(lo, hi) ==
    LET u == lo + 256 * hi IN IF u >= 32768 THEN u - 65536 ELSE u

\* C18 -- Encoder round-trip.  After a successful mono write_wav the file at
\* the returned path has a header of 1 channel, the sample rate passed and
\* 16-bit samples, and its payload reads back as exactly one sample per input
\* sample, in order, each the clamped 16-bit value of that input.
C18_RoundTrip ==
    (WavDone /\ wav.result.kind = "return" /\ wav.channels = 1)
    => LET f == wav.disk.files[wav.result.path] IN
       /\ f.exists
       /\ f.header = <<1, 2, wav.sample_rate>>
       /\ 8 * f.header[2] = 16
       /\ Len(f.data) = 2 * Len(wav.audio_data)
       /\ \A i \in 1..Len(wav.audio_data) :
            C17_Encodes(wav.audio_data[i], from_bytes(f.data[2 * i - 1], f.data[2 * i]))

C18_Witness ==
    /\ WavDone /\ wav.result.kind = "return" /\ wav.channels = 1
    /\ wav.sample_rate = DEFAULT_SAMPLE_RATE
    /\ wav.audio_data = <<IntSample(0 - 1), FloatSample(0 - 1)>>

\* C19 -- Encoder success postcondition.  Whenever write_wav has returned,
\* the path is absolute and a file of more than zero bytes is there; when the
\* file was missing or of zero bytes after a write that reported success,
\* write_wav raised AudioWrite and no file is at the path.
C19_Postcondition ==
    /\ (WavDone /\ wav.result.kind = "return")
       => /\ wav.result.path.abs
          /\ wav.disk.files[wav.result.path].exists
          /\ getsize(wav.disk.files[wav.result.path]) > 0
    /\ (WavDone /\ wav.disturbed)
       => /\ wav.result.kind = "raise"
          /\ Kind(wav.result.exc) = "AudioWrite"
          /\ ~wav.disk.files[wav.path].exists

\* An observer call, or a construction, that task t has just finished.
Observes(t, ops) == th'[t] # th[t] /\ th'[t].pc = "idle" /\ th'[t].op \in ops

\* C21: is_initialized() and get_current_device() are pure observers. In
\* every manager state, also in the middle of another task's request, a call
\* of either leaves the cached device, the cached engine and the engine
\* objects as they were and runs neither detect_device() nor a constructor;
\* is_initialized() answers whether an engine is cached, get_current_device()
\* hands out the cached descriptor, and that descriptor is absent until a
\* detection step has succeeded. Every change of the caches is a step of a
\* task inside get_device_info, get_engine or synthesize.
C21_ObserverStep ==
    /\ \A t \in Tasks :
         Observes(t, {"is_initialized", "get_current_device"}) =>
           /\ UNCHANGED <<device_info, engine, engines, cls>>
           /\ th'[t].detects = 0
           /\ th'[t].ctors = << >>
           /\ th'[t].op = "is_initialized" => th'[t].result.flag = (engine # 0)
           /\ th'[t].op = "get_current_device" => th'[t].result.device = device_info
    /\ <<device_info, engine, engines>>' # <<device_info, engine, engines>> =>
         \E t \in Tasks : th[t].pc # "idle" /\ th'[t] # th[t]
    /\ (device_info = NoDevice /\ device_info' # NoDevice) =>
         \E t \in Tasks : /\ th[t].pc = "gdi_detect"
                          /\ th'[t].pc = "gdi_return"
                          /\ device_info' = detect_device(env)

C21_PureObservers == [][C21_ObserverStep]_vars

\* Task 2 saw a descriptor while task 1 was between detection and construction.
C21_Witness ==
    /\ th[2].op = "get_current_device"
    /\ th[2].result.device # NoDevice
    /\ th[1].pc = "ge_init"
    /\ engine = 0

\* C22: XTTSEngine.load_model is idempotent. Once the ready flag of an engine
\* is set it stays set and no step constructs that engine's model again; a
\* load that fails hands EngineLoadError to the caller and leaves the ready
\* flag unset, so the next synthesize call enters load_model again.
C22_LoadStep ==
    /\ \A h \in 1..Len(engines) :
         engines[h].model_loaded =>
           /\ engines'[h].model_loaded
           /\ engines'[h].tts_model = engines[h].tts_model
    /\ \A t \in Tasks :
         /\ (th[t].pc \in {"x_load", "x_loaded"} /\ th'[t].pc = "syn_except") =>
              /\ th'[t].exc.type = "EngineLoadError"
              /\ ~engines'[th[t].eng].model_loaded
         /\ (th[t].pc = "x_enter" /\ th'[t].pc \in {"x_load", "x_resolve"}) =>
              (th'[t].pc = "x_load") = ~engines[th[t].eng].model_loaded

C22_LoadModelIdempotent == [][C22_LoadStep]_vars

\* XTTSEngine.synthesize itself raised in task t's request (not the bare
\* capability of the engine interface).
XttsRaised(t) ==
    /\ th[t].pc = "syn_except"
    /\ th[t].tts_calls = 0
    /\ "capability failed" \notin th[t].exc.msg

\* tts_to_file was invoked, or is about to be, in task t's request.
Inferring(t) ==
    \/ th[t].pc \in {"x_tts", "x_tts_write", "x_verify", "x_cleanup", "syn_return"}
    \/ th[t].tts_calls > 0

C24_Attempts(t) ==
    LET c == th[t].ctors IN
    /\ Len(c) <= 2
    /\ Len(c) >= 1 => c[1].device = detect_device(env).type
    /\ Len(c) = 2 => /\ c[1].device # "cpu" /\ ~c[1].ok
                     /\ c[2].device = "cpu"

\* A get_engine() call that is over returned an engine or raised Device or
\* EngineLoad.
C24_Outcome(t) ==
    Done(t, "get_engine") =>
      \/ th[t].result.kind = "return" /\ th[t].result.engine # 0
      \/ th[t].result.kind = "raise" /\ Kind(th[t].result.exc) \in {"Device", "EngineLoad"}

\* C24: every get_engine() call terminates, returning an engine or raising
\* Device or EngineLoad, after at most two construction attempts: at most one
\* on the detected device and at most one on cpu, the second only after the
\* first failed on a device other than cpu.
C24_BoundedInit ==
    /\ [](\A t \in Tasks : C24_Attempts(t) /\ C24_Outcome(t))
    /\ \A t \in Tasks :
         (th[t].op = "get_engine" /\ th[t].pc # "idle") ~> Done(t, "get_engine")

\* A call that used both attempts and raised.
C24_Witness ==
    /\ Done(1, "get_engine")
    /\ Len(th[1].ctors) = 2
    /\ ~th[1].ctors[2].ok
    /\ th[1].result.kind = "raise"

\* C25: detection is memoized.  With one request at a time, once a
\* descriptor is cached no step of a later get_device_info(), get_engine() or
\* synthesize() call runs detect_device() again or is about to, no
\* get_device_info() call replaces the descriptor, and a get_device_info()
\* call that returns hands out the cached descriptor.
C25_MemoStep ==
    \A t \in Tasks :
      /\ device_info # NoDevice =>
           /\ th'[t].detects <= th[t].detects
           /\ th'[t].pc # "gdi_detect"
           /\ th[t].op = "get_device_info" => device_info' = device_info
      /\ (th[t].op = "get_device_info" /\ th[t].pc # "idle" /\ Done(t, "get_device_info")'
            /\ th'[t].result.kind = "return") =>
           /\ th'[t].result.device = device_info
           /\ device_info' = device_info

C25_DetectionMemoized == [][C25_MemoStep]_vars

\* A get_device_info() call answered from the cache, without a probe.
C25_Witness ==
    /\ Done(1, "get_device_info")
    /\ th[1].result.kind = "return"
    /\ th[1].result.device.type = "cuda"
    /\ th[1].detects = 0

\* Task t's step was a failure: a construction attempt that failed, a
\* failure handed to the handlers of synthesize, or a call that raised (the
\* empty-text rejection among them).
FailureStep(t) ==
    \/ /\ Len(th'[t].ctors) = Len(th[t].ctors) + 1
       /\ ~th'[t].ctors[Len(th'[t].ctors)].ok
    \/ th[t].pc # "syn_except" /\ th'[t].pc = "syn_except"
    \/ th[t].pc # "idle" /\ th'[t].pc = "idle" /\ th'[t].result.kind = "raise"

\* C26: the cached device descriptor changes in two ways only: from absent
\* to the detected descriptor in a successful detection, and from a
\* descriptor that is not cpu to the cpu descriptor after a fallback whose
\* cpu construction succeeded. A failed construction, a failed fallback, a
\* synthesis failure and an empty-text rejection leave it as it was.
C26_DeviceStep ==
    /\ device_info' # device_info =>
         \/ /\ device_info = NoDevice
            /\ device_info' = detect_device(env)
            /\ \E t \in Tasks : th[t].pc = "gdi_detect" /\ th'[t].pc = "gdi_return"
         \/ /\ device_info # NoDevice
            /\ device_info.type # "cpu"
            /\ device_info' = cpu_device
            /\ \E t \in Tasks : th[t].pc = "ge_setdevice" /\ Retried(t, TRUE)
    /\ \A t \in Tasks : FailureStep(t) => device_info' = device_info

C26_DeviceFrame == [][C26_DeviceStep]_vars

\* After a fallback changed the descriptor to cpu, a request failed and the
\* descriptor is still the cpu one.
C26_Witness ==
    /\ detect_device(env).type # "cpu"
    /\ device_info = cpu_device
    /\ Done(1, "synthesize")
    /\ th[1].result.kind = "raise"
    /\ th[1].ctors = << >>

\* C27: the manager is a singleton with a monotone lifecycle. Every
\* EngineManager() hands out the one instance; a construction after the
\* first leaves the cached device and the cached engine as they are; and
\* under any sequence of constructions, observations and requests an engine,
\* once cached, stays cached and stays the same engine.
C27_LifecycleStep ==
    /\ \A t \in Tasks :
         Observes(t, {"EngineManager"}) =>
           /\ th'[t].result.instance = cls'.instance
           /\ th'[t].result.instance # 0
    /\ cls.instance # 0 =>
         /\ cls'.instance = cls.instance
         /\ cls' # cls \/ (\E t \in Tasks : Observes(t, {"EngineManager"})) =>
              UNCHANGED <<device_info, engine, engines>>
    /\ cls.initialized => cls'.initialized
    /\ engine # 0 => engine' = engine

C27_Singleton == [][C27_LifecycleStep]_vars

\* The manager was constructed again after an engine had been cached.
C27_Witness ==
    /\ th[2].op = "EngineManager"
    /\ th[2].result.instance = cls.instance
    /\ engine # 0
    /\ engine \in th[2].before
    /\ device_info # NoDevice
    /\ Done(1, "synthesize")
    /\ th[1].result.kind = "return"

\* C28: in every state a task can observe, also while another task is inside
\* get_engine(), a cached engine comes with a cached descriptor whose type is
\* the device that engine was constructed for; no observer finds
\* is_initialized() true while get_current_device() still reports the device
\* on which construction failed.
C28_ConsistentPair ==
    engine # 0 =>
      /\ device_info # NoDevice
      /\ device_info.type = engines[engine].device

\* Path p is in another request's hands: synthesize has returned it to task
\* u, or task u's tts_to_file has opened it and the call is not over.
InUseBy(u, p) ==
    \/ Done(u, "synthesize") /\ th[u].result.kind = "return" /\ th[u].result.path = p
    \/ th[u].pc \in {"x_tts_write", "x_verify"} /\ th[u].output_path = p

\* C29: in every interleaving, the failure cleanup of one
\* EngineManager.synthesize call deletes no file at a path that a different
\* synthesize call has already returned to its caller or is writing.
C29_CleanupStep ==
    \A t \in Tasks :
      (th[t].pc = "syn_except" /\ th'[t].pc = "idle") =>
        \A p \in Paths :
          (fs[p] # "absent" /\ fs'[p] = "absent") =>
            \A u \in Tasks \ {t} : ~InUseBy(u, p)

C29_CleanupIsolation == [][C29_CleanupStep]_vars

\* C30: in every interleaving of synthesize calls on one engine whose model
\* is not loaded yet, the model is constructed successfully at most once: a
\* load completes (model constructed, placed, ready flag set) only on an
\* engine that is not ready, so no second load completes on the same
\* engine; and no call runs inference before the ready flag is set.
C30_LoadStep ==
    \A t \in Tasks :
      /\ (th[t].pc = "x_loaded" /\ th'[t].pc = "x_resolve") =>
           ~engines[th[t].eng].model_loaded
      /\ th'[t].pc \in {"x_tts", "x_tts_write", "x_verify"} =>
           engines'[th'[t].eng].model_loaded

C30_LoadedOnce == [][C30_LoadStep]_vars

\* C31: an invalid sample leaves nothing behind. When write_wav raised
\* AudioWrite because a sample is neither a float nor an integer, no file the
\* call created remains: the files are as the call found them, the scratch
\* file generated for a call without output path included.
C31_InvalidSampleLeavesNothing ==
    (WavDone /\ wav.result.kind = "raise"
        /\ "Invalid sample type" \in wav.result.exc.msg)
    => /\ Kind(wav.result.exc) = "AudioWrite"
       /\ wav.disk.files = wav.before.files

====
